---- MODULE Spec2Model ----
(***************************************************************************)
(* Vector-space retrieval engine of hw2_copy.py: document-frequency index, *)
(* term vectorizer, similarity engine, ranker and evaluation metrics.      *)
(*                                                                         *)
(* Every operation of the program is a pure function, so each part is a    *)
(* specification whose Init draws the arguments from bounded sets and      *)
(* whose actions apply one function and record its outcome in ret.         *)
(*                                                                         *)
(* Numbers are exact rationals <<numerator, denominator>> in lowest terms  *)
(* with a positive denominator; Python's floating-point rounding is not    *)
(* modelled.  An operation that raises has ret.kind equal to the name of   *)
(* the Python exception.                                                   *)
(***************************************************************************)
EXTENDS Integers, Sequences, FiniteSets, TLC

VARIABLES
    op,           \* name of the last function applied ("init" before any)
    ret,          \* what that function returned or raised
    docs,         \* compute_doc_freqs: the corpus, a sequence of Documents
    doc,          \* compute_tf/tfidf/boolean: the document or query
    doc_freqs,    \* compute_tf/tfidf/boolean: the document-frequency Counter
    weights,      \* compute_tf/tfidf/boolean: the TermWeights
    x, y,         \* similarity functions: the two sparse vectors
    doc_vectors,  \* search: the document vectors, index i holds doc id i
    query_vec,    \* search: the query vector
    sim,          \* search: the name of the similarity function
    recall,       \* precision_at: the target recall
    results,      \* evaluation: the ranked document ids
    relevant      \* evaluation: the relevant document ids

vars == <<op, ret, docs, doc, doc_freqs, weights, x, y, doc_vectors,
          query_vec, sim, recall, results, relevant>>

vecVars    == <<docs, doc, doc_freqs, weights>>
simVars    == <<x, y>>
searchVars == <<doc_vectors, query_vec, sim>>
evalVars   == <<recall, results, relevant>>

-----------------------------------------------------------------------------
(* Bounds of the model *)

\* largest corpus size seen by the evaluation metrics
NDocs == 3
\* longest relevant list
MaxRel == 3
\* similarity engine: weights range over 0, 1/2, 1, ..., MaxWeight
MaxWeight == 3
\* search: largest number of document vectors
MaxVectors == 3
\* compute_doc_freqs: largest corpus and the most words it holds in all
MaxDocs == 2
MaxCorpusWords == 3
\* vectorizer: the most words of one document, the largest document frequency
MaxDocWords == 3
MaxDf == 2

Terms == {"a", "b"}

-----------------------------------------------------------------------------
(* Exact rational arithmetic *)

Abs(a) == IF a < 0 THEN -a ELSE a

RECURSIVE GCD(_, _)
GCD(a, b) == IF b = 0 THEN a ELSE GCD(b, a % b)

Rat(n, d) ==
    LET g == GCD(Abs(n), Abs(d))
        s == IF d < 0 THEN -1 ELSE 1
    IN  <<(s * n) \div g, (s * d) \div g>>

Zero == <<0, 1>>
One  == <<1, 1>>

RAdd(a, b) == Rat(a[1] * b[2] + b[1] * a[2], a[2] * b[2])
RSub(a, b) == Rat(a[1] * b[2] - b[1] * a[2], a[2] * b[2])
RMul(a, b) == Rat(a[1] * b[1], a[2] * b[2])
RDiv(a, b) == Rat(a[1] * b[2], a[2] * b[1])
RLt(a, b)  == a[1] * b[2] < b[1] * a[2]
RLe(a, b)  == a[1] * b[2] <= b[1] * a[2]
RNeg(a)    == <<-a[1], a[2]>>

Range(s) == {s[i] : i \in DOMAIN s}

\* what a function hands back: a value, or the exception it raised
Value(v) == [kind |-> "value", val |-> v]
Raise(e) == [kind |-> e, val |-> Zero]

-----------------------------------------------------------------------------
(* Evaluation metrics *)

\* interpolate with the intercept left out
interpolate_no_intercept(x1, y1, x2, y2, t) ==
    IF x2 = x1
    THEN Raise("ZeroDivisionError")
    ELSE Value(RMul(RDiv(RSub(y2, y1), RSub(x2, x1)), t))

\* interpolate that answers y1 for a vertical segment instead of dividing
interpolate_guarded(x1, y1, x2, y2, t) ==
    IF x2 = x1
    THEN Value(y1)
    ELSE LET m == RDiv(RSub(y2, y1), RSub(x2, x1))
             b == RSub(y1, RMul(m, x1))
         IN  Value(RAdd(RMul(m, t), b))

interpolate(x1, y1, x2, y2, t) ==
    IF x2 = x1
    THEN Raise("ZeroDivisionError")
    ELSE LET m == RDiv(RSub(y2, y1), RSub(x2, x1))
             b == RSub(y1, RMul(m, x1))
         IN  Value(RAdd(RMul(m, t), b))

\* the loop of precision_at without the break: it goes on past the first
\* point above the target and keeps the last one
RECURSIVE precision_scan_no_break(_, _, _, _, _)
precision_scan_no_break(t, res, rel, j, st) ==
    IF j > Len(res)
    THEN st
    ELSE IF res[j] \in Range(rel)
         THEN LET tp         == st.tp + 1
                  precision1 == Rat(tp, j)
                  recall1    == Rat(tp, Len(rel))
              IN  IF RLt(t, recall1)
                  THEN precision_scan_no_break(t, res, rel, j + 1,
                           [st EXCEPT !.tp = tp, !.upper_r = recall1,
                                      !.upper_p = precision1])
                  ELSE precision_scan_no_break(t, res, rel, j + 1,
                           [st EXCEPT !.tp = tp, !.lower_r = recall1,
                                      !.lower_p = precision1])
         ELSE precision_scan_no_break(t, res, rel, j + 1, st)

\* the loop of precision_at from position j on; st holds its local variables
RECURSIVE precision_scan(_, _, _, _, _)
precision_scan(t, res, rel, j, st) ==
    IF j > Len(res)
    THEN st
    ELSE IF res[j] \in Range(rel)
         THEN LET tp         == st.tp + 1
                  precision1 == Rat(tp, j)
                  recall1    == Rat(tp, Len(rel))
              IN  IF RLt(t, recall1)
                  THEN [st EXCEPT !.tp = tp, !.upper_r = recall1,
                                  !.upper_p = precision1]
                  ELSE precision_scan(t, res, rel, j + 1,
                           [st EXCEPT !.tp = tp, !.lower_r = recall1,
                                      !.lower_p = precision1])
         ELSE precision_scan(t, res, rel, j + 1, st)

precision_at(t, res, rel) ==
    LET st == precision_scan(t, res, rel, 1,
                  [tp |-> 0, lower_r |-> Zero, upper_r |-> Zero,
                   lower_p |-> One, upper_p |-> One])
    IN  interpolate(st.lower_r, st.lower_p, st.upper_r, st.upper_p, t)

\* 1-based position of id in res, 0 when the inner loop ends without a match
RankOf(res, id) ==
    IF \E j \in 1..Len(res) : res[j] = id
    THEN CHOOSE j \in 1..Len(res) :
             res[j] = id /\ \A k \in 1..(j - 1) : res[k] # id
    ELSE 0

RECURSIVE calc_rank_from(_, _, _)
calc_rank_from(res, rel, i) ==
    IF i > Len(rel)
    THEN <<>>
    ELSE LET c == RankOf(res, rel[i])
         IN  (IF c = 0 THEN <<>> ELSE <<c>>) \o calc_rank_from(res, rel, i + 1)

calc_rank(res, rel) == calc_rank_from(res, rel, 1)

RECURSIVE SumSeq(_)
SumSeq(s) == IF s = <<>> THEN 0 ELSE s[1] + SumSeq(Tail(s))

\* norm_recall dividing by Rel * N
norm_recall_by_n(res, rel) ==
    LET r_Rel    == Len(rel)
        n_N      == Len(res)
        rank     == calc_rank(res, rel)
        sum_i    == SumSeq([i \in 1..r_Rel |-> i])
    IN  IF Len(rank) < r_Rel
        THEN Raise("IndexError")
        ELSE IF r_Rel * n_N = 0
             THEN Raise("ZeroDivisionError")
             ELSE Value(RSub(One, Rat(SumSeq(rank) - sum_i, r_Rel * n_N)))

norm_recall(res, rel) ==
    LET r_Rel    == Len(rel)
        n_N      == Len(res)
        rank     == calc_rank(res, rel)
        sum_i    == SumSeq([i \in 1..r_Rel |-> i])
    IN  IF Len(rank) < r_Rel
        THEN Raise("IndexError")
        ELSE IF r_Rel * (n_N - r_Rel) = 0
             THEN Raise("ZeroDivisionError")
             ELSE Value(RSub(One, Rat(SumSeq(rank) - sum_i,
                                      r_Rel * (n_N - r_Rel))))

-----------------------------------------------------------------------------
(* Arguments of the evaluation metrics *)

\* the rankings search can return for a corpus of n documents
Perms(n) == {s \in [1..n -> 1..n] : \A i, j \in 1..n : s[i] = s[j] => i = j}

Rankings == UNION {Perms(n) : n \in 0..NDocs}

\* the lists read_rels builds; an id above the corpus size is in no ranking
RelevantLists ==
    UNION {{s \in [1..n -> 1..(NDocs + 1)] :
                \A i, j \in 1..n : s[i] = s[j] => i = j} : n \in 0..MaxRel}

RecallLevels ==
    {Zero, <<1, 10>>, <<1, 4>>, <<1, 3>>, <<1, 2>>, <<2, 3>>, <<3, 4>>, One}

unusedVec    == docs = <<>> /\ doc = <<>> /\ doc_freqs = <<>> /\ weights = <<>>
unusedSim    == x = <<>> /\ y = <<>>
unusedSearch == doc_vectors = <<>> /\ query_vec = <<>> /\ sim = ""

InitEval ==
    /\ op = "init"
    /\ ret = Value(Zero)
    /\ recall \in RecallLevels
    /\ results \in Rankings
    /\ relevant \in RelevantLists
    /\ unusedVec /\ unusedSim /\ unusedSearch

PrecisionAt ==
    /\ op' = "precision_at"
    /\ ret' = precision_at(recall, results, relevant)
    /\ UNCHANGED <<vecVars, simVars, searchVars, evalVars>>

CalcRank ==
    /\ op' = "calc_rank"
    /\ ret' = Value(calc_rank(results, relevant))
    /\ UNCHANGED <<vecVars, simVars, searchVars, evalVars>>

NormRecall ==
    /\ op' = "norm_recall"
    /\ ret' = norm_recall(results, relevant)
    /\ UNCHANGED <<vecVars, simVars, searchVars, evalVars>>

NextEval == PrecisionAt \/ CalcRank \/ NormRecall

SpecEval == InitEval /\ [][NextEval]_vars

-----------------------------------------------------------------------------
(* Properties of the evaluation metrics *)

Max(S) == CHOOSE m \in S : \A k \in S : k <= m
Min(S) == CHOOSE m \in S : \A k \in S : m <= k

\* every relevant id occurs in the ranking
HasAllRelevant == Range(relevant) \subseteq Range(results)

\* positions of the ranking that hold a relevant document
Hits == {k \in 1..Len(results) : results[k] \in Range(relevant)}

RelCount(k) == Cardinality({j \in 1..k : results[j] \in Range(relevant)})
RecallPoint(k)    == Rat(RelCount(k), Len(relevant))
PrecisionPoint(k) == Rat(RelCount(k), k)

\* the interpolation the claim describes, from the recall/precision points
BracketValue ==
    LET u     == Min({k \in Hits : RLt(recall, RecallPoint(k))})
        below == {k \in Hits : k < u /\ RLe(RecallPoint(k), recall)}
        lr    == IF below = {} THEN Zero ELSE RecallPoint(Max(below))
        lp    == IF below = {} THEN One ELSE PrecisionPoint(Max(below))
        ur    == RecallPoint(u)
        up    == PrecisionPoint(u)
    IN  RAdd(lp, RDiv(RMul(RSub(up, lp), RSub(recall, lr)), RSub(ur, lr)))

\* C3: for a ranking holding every id of a non-empty relevant list and a
\* target recall t with 0 <= t < 1, precision_at returns the linear
\* interpolation at t between the first relevant document with recall > t
\* and the last relevant document before it (or the anchor (0, 1)); when t
\* is a recall value that is reached, the result is the precision there.
C3_Interpolation ==
    (op = "precision_at" /\ relevant # <<>> /\ HasAllRelevant
        /\ RLt(recall, One))
    => /\ ret = Value(BracketValue)
       /\ \A k \in Hits : RecallPoint(k) = recall => ret.val = PrecisionPoint(k)

\* C3 witness: a target strictly between two reached recall values whose
\* precisions differ, so the result is a proper interpolation
C3_Witness ==
    /\ op = "precision_at" /\ relevant # <<>> /\ HasAllRelevant
    /\ RLt(recall, One)
    /\ \E k \in Hits :
          /\ RLt(RecallPoint(k), recall)
          /\ ret.kind = "value"
          /\ RLt(ret.val, PrecisionPoint(k))
          /\ \A j \in Hits : ret.val # PrecisionPoint(j)

\* C4: at target recall 1 precision_at scans the whole ranking and returns
\* |relevant| divided by the rank of the last relevant document.
C4_FullRecall ==
    (op = "precision_at" /\ recall = One /\ relevant # <<>> /\ HasAllRelevant)
    => ret = Value(Rat(Len(relevant), Max(Hits)))

\* C4 witness: full recall reached only below the top of the ranking
C4_Witness ==
    /\ op = "precision_at" /\ recall = One /\ Len(relevant) >= 2
    /\ HasAllRelevant
    /\ Max(Hits) = Len(results) /\ Len(results) > Len(relevant)
    /\ ret.kind = "value" /\ RLt(ret.val, One)

\* C5: with an empty relevant list precision_at raises and returns no number.
C5_EmptyRelevantFails ==
    (op = "precision_at" /\ relevant = <<>>) => ret.kind = "ZeroDivisionError"

\* C5 witness: precision_at applied to a non-empty ranking and no relevant id
C5_Witness ==
    /\ op = "precision_at" /\ relevant = <<>> /\ results # <<>>
    /\ ret.kind # "value"

\* C6: when some relevant id is missing from the ranking, precision_at,
\* calc_rank and norm_recall each raise instead of returning a result.
C6_MissingRelevantFails ==
    (op \in {"precision_at", "calc_rank", "norm_recall"} /\ ~HasAllRelevant)
    => ret.kind # "value"

\* the ranks of the relevant documents
RelevantRanks == {RankOf(results, relevant[i]) : i \in 1..Len(relevant)}

\* C10: for 0 < Rel < N and every relevant id ranked, norm_recall lies in
\* [0, 1], is 1 exactly when the relevant documents hold ranks 1..Rel and
\* is 0 exactly when they hold the last Rel ranks.
C10_NormRecallRange ==
    (op = "norm_recall" /\ HasAllRelevant
        /\ 0 < Len(relevant) /\ Len(relevant) < Len(results))
    => /\ ret.kind = "value"
       /\ RLe(Zero, ret.val) /\ RLe(ret.val, One)
       /\ ret.val = One <=> RelevantRanks = 1..Len(relevant)
       /\ ret.val = Zero
            <=> RelevantRanks = (Len(results) - Len(relevant) + 1)..Len(results)

\* C10 witness: the relevant documents hold the last ranks and the result is 0
C10_Witness ==
    /\ op = "norm_recall" /\ HasAllRelevant
    /\ Len(relevant) >= 2 /\ Len(relevant) < Len(results)
    /\ RelevantRanks = (Len(results) - Len(relevant) + 1)..Len(results)
    /\ ret = Value(Zero)

-----------------------------------------------------------------------------
(* Similarity engine.  A sparse vector is a function from the terms it   *)
(* holds to their weights.  ret.divs lists the divisors of the divisions  *)
(* the function performed.                                                *)

Return(v)      == [kind |-> "value", val |-> v, divs |-> <<>>]
RaiseSim(e)    == [kind |-> e, val |-> Zero, divs |-> <<>>]
Divide(n, d)   ==
    IF d = Zero
    THEN [kind |-> "ZeroDivisionError", val |-> Zero, divs |-> <<d>>]
    ELSE [kind |-> "value", val |-> RDiv(n, d), divs |-> <<d>>]

\* dict.get(key, 0)
Get(v, key) == IF key \in DOMAIN v THEN v[key] ELSE Zero

RECURSIVE SumProducts(_, _, _)
SumProducts(a, b, keys) ==
    IF keys = {}
    THEN Zero
    ELSE LET k == CHOOSE k \in keys : TRUE
         IN  RAdd(RMul(Get(a, k), Get(b, k)), SumProducts(a, b, keys \ {k}))

dictdot(a, b) ==
    LET keys == IF Cardinality(DOMAIN a) < Cardinality(DOMAIN b)
                THEN DOMAIN a ELSE DOMAIN b
    IN  SumProducts(a, b, keys)

\* sum(list(v.values()))
SumValues(v) == SumProducts(v, [k \in DOMAIN v |-> One], DOMAIN v)

\* norm(list(v.values())) squared
NormSquared(v) == SumProducts(v, v, DOMAIN v)

RMin(a, b) == IF RLt(b, a) THEN b ELSE a

\* The cosine is the square root of a rational.  It is held as its square,
\* num^2 / (norm(a)^2 * norm(b)^2); with non-negative weights the squares
\* order and tie as the cosines do, and the divisor is 0 exactly when
\* norm(a) * norm(b) is.
cosine_sim(a, b) ==
    LET num == dictdot(a, b)
    IN  IF num = Zero
        THEN Return(Zero)
        ELSE Divide(RMul(num, num), RMul(NormSquared(a), NormSquared(b)))

\* dice_sim dividing by sum(x) alone
dice_sim_half(a, b) ==
    LET num == dictdot(a, b)
    IN  IF num = Zero
        THEN Return(Zero)
        ELSE Divide(RMul(<<2, 1>>, num), SumValues(a))

dice_sim(a, b) ==
    LET num == dictdot(a, b)
    IN  IF num = Zero
        THEN Return(Zero)
        ELSE Divide(RMul(<<2, 1>>, num), RAdd(SumValues(a), SumValues(b)))

Sentinel == <<1, 10000000>>

\* jaccard_sim without the zero-denominator test
jaccard_sim_unguarded(a, b) ==
    LET num == dictdot(a, b)
        den == RSub(RAdd(SumValues(a), SumValues(b)), num)
    IN  IF num = Zero
        THEN Return(Zero)
        ELSE Divide(num, den)

jaccard_sim(a, b) ==
    LET num == dictdot(a, b)
        den == RSub(RAdd(SumValues(a), SumValues(b)), num)
    IN  IF num = Zero
        THEN Return(Zero)
        ELSE IF den = Zero
             THEN Return(Sentinel)
             ELSE Divide(num, den)

overlap_sim(a, b) ==
    LET num == dictdot(a, b)
    IN  IF num = Zero
        THEN Return(Zero)
        ELSE Divide(num, RMin(SumValues(a), SumValues(b)))

\* the sim_funcs table of experiment
SimNames == {"cosine", "jaccard", "dice", "overlap"}

sim_funcs(name, a, b) ==
    CASE name = "cosine"  -> cosine_sim(a, b)
      [] name = "jaccard" -> jaccard_sim(a, b)
      [] name = "dice"    -> dice_sim(a, b)
      [] name = "overlap" -> overlap_sim(a, b)

-----------------------------------------------------------------------------
(* Arguments of the similarity functions *)

VectorsOver(W) == UNION {[D -> W] : D \in SUBSET Terms}

WeightVals == {Rat(k, 2) : k \in 0..(2 * MaxWeight)}

unusedEval == recall = Zero /\ results = <<>> /\ relevant = <<>>

InitSim ==
    /\ op = "init"
    /\ ret = Return(Zero)
    /\ x \in VectorsOver(WeightVals)
    /\ y \in VectorsOver(WeightVals)
    /\ unusedVec /\ unusedSearch /\ unusedEval

ApplySim(name) ==
    /\ op' = name
    /\ ret' = sim_funcs(name, x, y)
    /\ UNCHANGED <<vecVars, simVars, searchVars, evalVars>>

CosineSim  == ApplySim("cosine")
DiceSim    == ApplySim("dice")
JaccardSim == ApplySim("jaccard")
OverlapSim == ApplySim("overlap")

NextSim == CosineSim \/ DiceSim \/ JaccardSim \/ OverlapSim

SpecSim == InitSim /\ [][NextSim]_vars

-----------------------------------------------------------------------------
(* Properties of the similarity engine *)

AllWeights == {x[k] : k \in DOMAIN x} \cup {y[k] : k \in DOMAIN y}

UnitWeights == \A w \in AllWeights : RLe(Zero, w) /\ RLe(w, One)

JaccardDen == RSub(RAdd(SumValues(x), SumValues(y)), dictdot(x, y))

InUnitInterval(v) == RLe(Zero, v) /\ RLe(v, One)

\* C2 as stated: for non-negative weights dice_sim, jaccard_sim and
\* overlap_sim return a value in [0, 1], except for jaccard's sentinel case.
C2_RangeNonNegative ==
    (op \in {"dice", "jaccard", "overlap"}
        /\ ~(op = "jaccard" /\ JaccardDen = Zero))
    => ret.kind = "value" /\ InUnitInterval(ret.val)

\* C2 amended: for vectors whose weights all lie in [0, 1], dice_sim,
\* jaccard_sim and overlap_sim return a value in [0, 1], and jaccard's
\* sentinel case does not arise.
C2_RangeUnitWeights ==
    (op \in {"dice", "jaccard", "overlap"} /\ UnitWeights)
    => /\ ret.kind = "value" /\ InUnitInterval(ret.val)
       /\ ret.val # Sentinel

\* C2 witness: a fractional weight and a result strictly inside (0, 1)
C2_Witness ==
    /\ op \in {"dice", "jaccard", "overlap"} /\ UnitWeights
    /\ <<1, 2>> \in AllWeights
    /\ ret.kind = "value" /\ RLt(Zero, ret.val) /\ RLt(ret.val, One)

\* the three outcomes the claim C9 lists, with the sign of the divisor left
\* to the caller
SimOutcome(divisorOk(_)) ==
    /\ ret.kind = "value"
    /\ dictdot(x, y) = Zero => ret = Return(Zero)
    /\ (op = "jaccard" /\ dictdot(x, y) # Zero /\ JaccardDen = Zero)
           => ret = Return(Sentinel)
    /\ (dictdot(x, y) # Zero /\ ~(op = "jaccard" /\ JaccardDen = Zero))
           => Len(ret.divs) = 1 /\ divisorOk(ret.divs[1])

Positive(d) == RLt(Zero, d)
NonZeroAndPositiveUnlessJaccard(d) ==
    d # Zero /\ (op # "jaccard" => RLt(Zero, d))

\* C9 as stated: no similarity function divides by zero; each returns 0 for
\* a zero dot product, jaccard_sim returns the sentinel for a zero
\* denominator, and otherwise the denominator is strictly positive.
C9_PositiveDenominator == op \in SimNames => SimOutcome(Positive)

\* C9 amended: as stated, but in the remaining cases the denominator is
\* non-zero, and strictly positive for cosine_sim, dice_sim and overlap_sim
\* (jaccard_sim's may be negative).
C9_NonZeroDenominator ==
    op \in SimNames => SimOutcome(NonZeroAndPositiveUnlessJaccard)

\* C9 witness: jaccard_sim meets a zero denominator and returns the sentinel
C9_Witness ==
    /\ op = "jaccard" /\ dictdot(x, y) # Zero /\ JaccardDen = Zero
    /\ ret = Return(Sentinel)

-----------------------------------------------------------------------------
(* Ranker *)

\* where sorted(..., key=lambda x: -x[1]) puts pair p among the pairs s
\* already in place, with ties placed ahead of the earlier pairs
insert_before_ties(s, p) ==
    LET k == Cardinality({i \in 1..Len(s) : RLt(RNeg(s[i][2]), RNeg(p[2]))})
    IN  SubSeq(s, 1, k) \o <<p>> \o SubSeq(s, k + 1, Len(s))

\* sorted is stable: p, which comes after the pairs of s in the input, goes
\* behind every pair of s whose key is not larger
insert_by_key(s, p) ==
    LET k == Cardinality({i \in 1..Len(s) : RLe(RNeg(s[i][2]), RNeg(p[2]))})
    IN  SubSeq(s, 1, k) \o <<p>> \o SubSeq(s, k + 1, Len(s))

RECURSIVE sorted_by_key(_)
sorted_by_key(pairs) ==
    IF pairs = <<>>
    THEN <<>>
    ELSE insert_by_key(sorted_by_key(SubSeq(pairs, 1, Len(pairs) - 1)),
                       pairs[Len(pairs)])

search(vectors, query, name) ==
    LET scores == [i \in 1..Len(vectors) |-> sim_funcs(name, query, vectors[i])]
        failed == {i \in 1..Len(vectors) : scores[i].kind # "value"}
        results_with_score == [i \in 1..Len(vectors) |-> <<i, scores[i].val>>]
        ranked == sorted_by_key(results_with_score)
    IN  IF failed # {}
        THEN Raise(scores[Min(failed)].kind)
        ELSE Value([i \in 1..Len(ranked) |-> ranked[i][1]])

\* document vectors with weights 1 and 2, query vectors with weight 1
DocVectorLists ==
    UNION {[1..n -> VectorsOver({One, <<2, 1>>})] : n \in 0..MaxVectors}

QueryVectors == VectorsOver({One})

InitSearch ==
    /\ op = "init"
    /\ ret = Value(<<>>)
    /\ doc_vectors \in DocVectorLists
    /\ query_vec \in QueryVectors
    /\ sim \in SimNames
    /\ unusedVec /\ unusedSim /\ unusedEval

Search ==
    /\ op' = "search"
    /\ ret' = search(doc_vectors, query_vec, sim)
    /\ UNCHANGED <<vecVars, simVars, searchVars, evalVars>>

NextSearch == Search

SpecSearch == InitSearch /\ [][NextSearch]_vars

\* the score search gave document id
Score(id) == sim_funcs(sim, query_vec, doc_vectors[id]).val

\* C1: search returns a permutation of the ids 1..n, ordered by
\* non-increasing score, and of two documents with equal scores the one
\* with the smaller id comes first.
C1_StableRanking ==
    op = "search"
    => /\ ret.kind = "value"
       /\ Len(ret.val) = Len(doc_vectors)
       /\ Range(ret.val) = 1..Len(doc_vectors)
       /\ \A i, j \in 1..Len(ret.val) :
             i < j => /\ RLe(Score(ret.val[j]), Score(ret.val[i]))
                      /\ Score(ret.val[i]) = Score(ret.val[j])
                             => ret.val[i] < ret.val[j]

\* C1 witness: the highest score belongs to the last document, and two
\* earlier documents tie
C1_Witness ==
    /\ op = "search" /\ ret.kind = "value" /\ Len(doc_vectors) = 3
    /\ ret.val = <<3, 1, 2>>
    /\ Score(1) = Score(2) /\ RLt(Score(1), Score(3)) /\ RLt(Zero, Score(1))

-----------------------------------------------------------------------------
(* Document-frequency index and term vectorizer *)

Fields == {"author", "title", "keyword", "abstract"}

\* Document.sections()
sections(d) == <<d.author, d.title, d.keyword, d.abstract>>

\* the set words that the first loop of compute_doc_freqs builds for d
words_of(d) == UNION {Range(sections(d)[i]) : i \in 1..4}

\* freq[word] += 1 on a Counter, for every word of the set
increment_all(freq, words) ==
    [w \in DOMAIN freq \cup words |->
        IF w \in words
        THEN (IF w \in DOMAIN freq THEN freq[w] ELSE 0) + 1
        ELSE freq[w]]

\* compute_doc_freqs adding one for every section that holds the word
RECURSIVE count_sections(_, _)
count_sections(freq, secs) ==
    IF secs = <<>>
    THEN freq
    ELSE count_sections(increment_all(freq, Range(secs[1])), Tail(secs))

RECURSIVE compute_doc_freqs_per_section(_)
compute_doc_freqs_per_section(ds) ==
    IF ds = <<>>
    THEN <<>>
    ELSE count_sections(
             compute_doc_freqs_per_section(SubSeq(ds, 1, Len(ds) - 1)),
             sections(ds[Len(ds)]))

RECURSIVE compute_doc_freqs(_)
compute_doc_freqs(ds) ==
    IF ds = <<>>
    THEN <<>>
    ELSE increment_all(compute_doc_freqs(SubSeq(ds, 1, Len(ds) - 1)),
                       words_of(ds[Len(ds)]))

\* vec[word] += w on a defaultdict(float), for every word of the list
RECURSIVE add_words(_, _, _)
add_words(vec, words, w) ==
    IF words = <<>>
    THEN vec
    ELSE LET word == words[1]
             next == IF word \in DOMAIN vec
                     THEN [vec EXCEPT ![word] = RAdd(@, w)]
                     ELSE vec @@ (word :> w)
         IN  add_words(next, Tail(words), w)

\* compute_tf with the title and keyword multipliers exchanged
compute_tf_swapped(d, freqs, tw) ==
    LET v1 == add_words(<<>>, d.author, Rat(tw.author, 1))
        v2 == add_words(v1, d.keyword, Rat(tw.title, 1))
        v3 == add_words(v2, d.title, Rat(tw.keyword, 1))
    IN  add_words(v3, d.abstract, Rat(tw.abstract, 1))

compute_tf(d, freqs, tw) ==
    LET v1 == add_words(<<>>, d.author, Rat(tw.author, 1))
        v2 == add_words(v1, d.keyword, Rat(tw.keyword, 1))
        v3 == add_words(v2, d.title, Rat(tw.title, 1))
    IN  add_words(v3, d.abstract, Rat(tw.abstract, 1))

\* Counter lookup: a missing key reads as 0
df_of(freqs, word) == IF word \in DOMAIN freqs THEN freqs[word] ELSE 0

compute_tfidf(d, freqs, tw) ==
    LET tf == compute_tf(d, freqs, tw)
    IN  [i \in DOMAIN tf |->
            IF df_of(freqs, i) # 0
            THEN RDiv(tf[i], Rat(df_of(freqs, i), 1))
            ELSE Zero]

compute_boolean(d, freqs, tw) == [word \in words_of(d) |-> One]

-----------------------------------------------------------------------------
(* Arguments of the index and the vectorizer *)

EmptyDoc(id) ==
    [doc_id |-> id, author |-> <<>>, title |-> <<>>, keyword |-> <<>>,
     abstract |-> <<>>]

AddWord(d, f, w) == [d EXCEPT ![f] = Append(@, w)]

\* the corpora of n documents holding at most k words
RECURSIVE CorporaOf(_, _)
CorporaOf(n, k) ==
    IF k = 0
    THEN {[i \in 1..n |-> EmptyDoc(i)]}
    ELSE LET P == CorporaOf(n, k - 1)
         IN  P \cup {[c EXCEPT ![i] = AddWord(c[i], f, w)] :
                        c \in P, i \in 1..n, f \in Fields, w \in Terms}

Corpora == UNION {CorporaOf(n, MaxCorpusWords) : n \in 0..MaxDocs}

\* the documents and queries holding at most MaxDocWords words
Documents == {c[1] : c \in CorporaOf(1, MaxDocWords)}

\* the Counters compute_doc_freqs can return
FreqTables == UNION {[D -> 1..MaxDf] : D \in SUBSET Terms}

\* the TermWeights of experiment, and two with a multiplier of 0
TermWeightsChoices ==
    {[author |-> 1, title |-> 1, keyword |-> 1, abstract |-> 1],
     [author |-> 1, title |-> 3, keyword |-> 4, abstract |-> 1],
     [author |-> 1, title |-> 1, keyword |-> 1, abstract |-> 4],
     [author |-> 0, title |-> 1, keyword |-> 0, abstract |-> 2],
     [author |-> 0, title |-> 0, keyword |-> 0, abstract |-> 0]}

InitFreq ==
    /\ op = "init"
    /\ ret = Value(<<>>)
    /\ docs \in Corpora
    /\ doc = <<>> /\ doc_freqs = <<>> /\ weights = <<>>
    /\ unusedSim /\ unusedSearch /\ unusedEval

ComputeDocFreqs ==
    /\ op' = "compute_doc_freqs"
    /\ ret' = Value(compute_doc_freqs(docs))
    /\ UNCHANGED <<vecVars, simVars, searchVars, evalVars>>

NextFreq == ComputeDocFreqs

SpecFreq == InitFreq /\ [][NextFreq]_vars

InitVec ==
    /\ op = "init"
    /\ ret = Value(<<>>)
    /\ docs = <<>>
    /\ doc \in Documents
    /\ doc_freqs \in FreqTables
    /\ weights \in TermWeightsChoices
    /\ unusedSim /\ unusedSearch /\ unusedEval

ComputeTf ==
    /\ op' = "compute_tf"
    /\ ret' = Value(compute_tf(doc, doc_freqs, weights))
    /\ UNCHANGED <<vecVars, simVars, searchVars, evalVars>>

ComputeTfidf ==
    /\ op' = "compute_tfidf"
    /\ ret' = Value(compute_tfidf(doc, doc_freqs, weights))
    /\ UNCHANGED <<vecVars, simVars, searchVars, evalVars>>

ComputeBoolean ==
    /\ op' = "compute_boolean"
    /\ ret' = Value(compute_boolean(doc, doc_freqs, weights))
    /\ UNCHANGED <<vecVars, simVars, searchVars, evalVars>>

NextVec == ComputeTf \/ ComputeTfidf \/ ComputeBoolean

SpecVec == InitVec /\ [][NextVec]_vars

-----------------------------------------------------------------------------
(* Properties of the index and the vectorizer *)

\* the word occurs in some field of d
Occurs(word, d) == \E f \in Fields : \E i \in 1..Len(d[f]) : d[f][i] = word

\* C7: the keys of compute_doc_freqs are the terms occurring in some
\* document, each counted once per document that holds it, so every
\* count lies in 1..corpus size.
C7_DocFreqs ==
    op = "compute_doc_freqs"
    => /\ DOMAIN ret.val =
              {w \in Terms : \E i \in 1..Len(docs) : Occurs(w, docs[i])}
       /\ \A w \in DOMAIN ret.val :
             /\ ret.val[w] =
                    Cardinality({i \in 1..Len(docs) : Occurs(w, docs[i])})
             /\ ret.val[w] >= 1 /\ ret.val[w] <= Len(docs)

\* C7 witness: a term twice in one document, in two fields, and absent
\* from the other document
C7_Witness ==
    /\ op = "compute_doc_freqs" /\ Len(docs) = 2
    /\ docs[1].title = <<"a">> /\ docs[1].abstract = <<"a">>
    /\ ~Occurs("a", docs[2]) /\ Occurs("b", docs[2])
    /\ ret.val = [a |-> 1, b |-> 1]

Vectorizers == {"compute_tf", "compute_tfidf", "compute_boolean"}

\* C8 as stated: a vector of the Term Vectorizer maps no key to 0.
C8_NoZeroEntries ==
    op \in Vectorizers => \A k \in DOMAIN ret.val : ret.val[k] # Zero

\* every field that holds the word has a multiplier of 0
OnlyZeroFields(word) ==
    \A f \in Fields :
        (\E i \in 1..Len(doc[f]) : doc[f][i] = word) => weights[f] = 0

\* C8 amended: a vector of the Term Vectorizer has a key for exactly the
\* terms occurring in the document, each with a non-negative weight; the
\* weight is 0 exactly when the term occurs only in fields whose multiplier
\* is 0 (compute_tf, compute_tfidf) or its document frequency is 0
\* (compute_tfidf); compute_boolean maps every key to 1.
C8_ZeroEntries ==
    op \in Vectorizers
    => /\ DOMAIN ret.val = {w \in Terms : Occurs(w, doc)}
       /\ \A k \in DOMAIN ret.val :
             /\ RLe(Zero, ret.val[k])
             /\ op = "compute_tf" => (ret.val[k] = Zero <=> OnlyZeroFields(k))
             /\ op = "compute_tfidf"
                    => (ret.val[k] = Zero
                           <=> (OnlyZeroFields(k) \/ df_of(doc_freqs, k) = 0))
             /\ op = "compute_boolean" => ret.val[k] = One

\* C8 witness: compute_tfidf on a query with one term of document
\* frequency 0 and one term with a non-zero weight
C8_Witness ==
    /\ op = "compute_tfidf"
    /\ DOMAIN ret.val = {"a", "b"}
    /\ df_of(doc_freqs, "a") = 0 /\ ret.val["a"] = Zero
    /\ ret.val["b"] # Zero /\ ret.val["b"] # One

====
